---- MODULE Spec2Model ----
(***************************************************************************)
(* Model of comfyui-archive-output.                                        *)
(*                                                                         *)
(* Compression Engine (src/compress_api.py): the aiohttp handlers          *)
(* execute_compress_endpoint, cancel_compress_endpoint and the batch       *)
(* CompressionService.compress_directory, which run_in_executor runs on a  *)
(* thread of the default ThreadPoolExecutor.  Handlers run on the event    *)
(* loop thread, one at a time between awaits; workers run on their own     *)
(* threads, and every statement of compress_directory that touches the     *)
(* shared fields is a step of its own.                                     *)
(*                                                                         *)
(* Archive Engine (src/archive_api.py): ArchiveService.execute_archive,    *)
(* a synchronous walk over a small file tree.                              *)
(*                                                                         *)
(* Specifications: Spec (start and cancel requests), SpecDelete (start     *)
(* requests with delete_original either way), SpecPoll (one batch with     *)
(* cancel and progress requests), SpecArchive (execute_archive),           *)
(* SpecCodec (_create_exif_with_metadata on payloads around the limit),    *)
(* SpecNoExif (start requests in a runtime where piexif failed to import), *)
(* SpecFair (one batch with a cancel request, a step that may raise and a  *)
(* worker thread that is scheduled) and SpecNaming (the paths the          *)
(* compressed files of one directory are written to).                      *)
(***************************************************************************)
EXTENDS Integers, Sequences, FiniteSets, TLC

(***************************************************************************)
(* Bounds.                                                                 *)
(***************************************************************************)
MaxStarts == 2      \* POST /compress/execute requests issued in one behaviour
MaxCancels == 1     \* POST /compress/cancel requests issued in one behaviour
MaxPng == 2         \* PNG candidates in the existing target directory
MaxSize == 1        \* os.path.getsize of a compressed file is 0..MaxSize
MaxPolls == 1       \* GET /compress/progress requests issued in one behaviour

Starts == 1..MaxStarts
Cancels == 1..MaxCancels
Polls == 1..MaxPolls

(***************************************************************************)
(* State of the compression service and of the requests in flight.        *)
(***************************************************************************)
VARIABLES
    is_running,         \* CompressionService.is_running
    cancel_requested,   \* CompressionService.cancel_requested
    progress,           \* CompressionService.progress
    hpc,                \* per start request: position of execute_compress_endpoint
    resp,               \* per start request: the HTTP response sent
    target,             \* per start request: the target directory of its config
    wpc,                \* per start request: position of its compress_directory call
    idx,                \* per worker: the loop index (enumerate)
    npng,               \* per worker: len(png_files)
    result,             \* per worker: result of the last compress_image call
    cpc,                \* per cancel request: position of cancel_compress_endpoint
    cresp,              \* per cancel request: the HTTP response sent
    cancelAcked,        \* history: a cancel was accepted while this worker's batch was active
    begunAfterCancel,   \* history: the worker began a candidate after such a cancel
    retained,           \* history: the progress record as the last loop end left it, until reset
    delete_original,    \* per start request: delete_original of the body it carries
    pngs,               \* the PNG files that exist in the existing target directory
    png_files,          \* per worker: the candidates it enumerated
    PIEXIF_AVAILABLE,   \* the module flag set by the import of lines 14-19
    ppc,                \* per progress request: position of get_compress_progress
    snapshot            \* per progress request: the response being built, then sent

dvars == <<delete_original, pngs, png_files, PIEXIF_AVAILABLE>>
pvars == <<ppc, snapshot>>

cvars == <<is_running, cancel_requested, progress, hpc, resp, target, wpc, idx,
           npng, result, cpc, cresp, cancelAcked, begunAfterCancel, retained,
           dvars, pvars>>

shared == <<is_running, cancel_requested, progress>>

(***************************************************************************)
(* State of the archive service: the file tree below the output directory  *)
(* and one execute_archive call at a time.                                 *)
(***************************************************************************)
VARIABLES
    dirs,               \* the directories that exist, as paths below the output directory
    files,              \* the files that exist: path -> [mtime, data]
    config,             \* the request: [skip_hidden_files]
    apc,                \* position of execute_archive
    pending,            \* os.walk, top down: directories found and not yet visited
    cwd,                \* os.walk: the directory being visited (root)
    listing,            \* os.walk: files of that directory not yet handled
    sweep,              \* os.walk, bottom up: directories not yet visited by the cleanup
    moved_count, skipped_count, error_count, removed_dirs,
    aresult,            \* the dict execute_archive returned
    runs,               \* execute_archive calls returned
    faults,             \* filesystem failures raised so far
    log,                \* history: what the current run did with each file it handled
    files0, dirs0,      \* history: the tree at the start of the current run
    prev                \* history: the result of the run before

avars == <<dirs, files, config, apc, pending, cwd, listing, sweep, moved_count,
           skipped_count, error_count, removed_dirs, aresult, runs, faults, log,
           files0, dirs0, prev>>

(***************************************************************************)
(* Metadata embedding: one call of _create_exif_with_metadata.             *)
(***************************************************************************)
VARIABLES
    metadata,           \* the argument: [workflow, prompt], each a length or Absent
    kpc,                \* "off", "input" (before the call), "encoded" (returned)
    exif_dict,          \* the entries of the EXIF block returned: tag -> length
    metadata_status     \* the status returned

kvars == <<metadata, kpc, exif_dict, metadata_status>>

(***************************************************************************)
(* Output naming: one batch over a directory of named files.               *)
(***************************************************************************)
VARIABLES
    dir_names,          \* the names of the files in the target directory at line 335
    output_format,      \* config["output_format"], upper case
    opc,                \* "off", "start", "loop", "done"
    todo,               \* the candidates of png_files not yet taken by the loop
    outputs,            \* compressed_path -> the candidate whose save wrote it last
    compressed_count    \* progress["compressed"] of this batch

ovars == <<dir_names, output_format, opc, todo, outputs, compressed_count>>

vars == <<cvars, dvars, pvars, avars, kvars, ovars>>

(***************************************************************************)
(* The progress record.  current_file is basename(png_files[idx]) and is   *)
(* written with current; the byte sums are written with compressed.  Both  *)
(* are functions of the fields kept here and are left out.                 *)
(***************************************************************************)
ZeroProgress ==
    [current |-> 0, total |-> 0, compressed |-> 0, errors |-> 0,
     metadata_full |-> 0, metadata_partial |-> 0, metadata_none |-> 0]

reset_progress == ZeroProgress

Targets == {"missing", "present"}

\* os.path.exists(target_dir)
DirExists(t) == t = "present"

\* lines 331-342: the PNG files of the directory, in the order of their names
RECURSIVE Sorted(_)
Sorted(S) ==
    IF S = {} THEN <<>>
    ELSE LET m == CHOOSE x \in S : \A y \in S : x <= y
         IN  <<m>> \o Sorted(S \ {m})

ListPng(t) == IF t = "present" THEN Sorted(pngs) ELSE <<>>

\* len(png_files) for an existing directory
PngCount(t) == Len(ListPng(t))

\* lines 149-165, 234-236: the result of a call that did not succeed; `removed`
\* records what became of os.remove: "no" (not called), "yes", "failed"
Failure ==
    [success |-> FALSE, metadata_status |-> "none", compressed_size |-> 0,
     removed |-> "no"]

\* the value of the local `result` outside a loop iteration
NoResult == Failure

\* compress_image, lines 161-238: the results the call may return for a
\* candidate, given delete_original.  A file that is gone returns "File not
\* found"; a file that is there may fail to load or to save; a saved file
\* has a status and a size, and the source is removed (or os.remove raises)
\* only when delete_original is set and the size is not zero.  Without
\* piexif line 208 leaves the status at the "none" of line 157.
compress_image(png_path, delete) ==
    IF png_path \notin pngs THEN {Failure}
    ELSE {Failure} \cup
         {o \in [success : {TRUE},
                 metadata_status : IF PIEXIF_AVAILABLE
                                     THEN {"full", "workflow_only", "none"}
                                     ELSE {"none"},
                 compressed_size : 0..MaxSize, removed : {"no", "yes", "failed"}] :
               o.removed = "no" <=> ~(delete /\ o.compressed_size > 0)}

\* positions of compress_directory between the guard and the finally block
ActivePCs == {"L285", "L286", "L314", "L345", "L349", "L356", "L359", "L361", "L367"}
\* positions inside enumeration and the per-file loop
LoopPCs == {"L345", "L349", "L356", "L359", "L361", "L367"}

\* The state after construction, with the requests the clients are going to
\* send: the start requests S with delete_original drawn from D, all the
\* cancel requests if cancels, all the progress requests if polls; piexif
\* says whether the import of piexif succeeded.
InitJob(S, D, cancels, polls, piexif) ==
    /\ is_running = FALSE
    /\ cancel_requested = FALSE
    /\ progress = ZeroProgress
    /\ hpc = [r \in Starts |-> IF r \in S THEN "new" ELSE "off"]
    /\ resp = [r \in Starts |-> "none"]
    /\ target = [r \in Starts |-> "present"]
    /\ wpc = [r \in Starts |-> "none"]
    /\ idx = [r \in Starts |-> 0]
    /\ npng = [r \in Starts |-> 0]
    /\ result = [r \in Starts |-> NoResult]
    /\ cpc = [c \in Cancels |-> IF cancels THEN "new" ELSE "off"]
    /\ cresp = [c \in Cancels |-> "none"]
    /\ cancelAcked = [r \in Starts |-> FALSE]
    /\ begunAfterCancel = [r \in Starts |-> FALSE]
    /\ retained = <<>>
    /\ delete_original \in [Starts -> D]
    /\ \A r \in Starts \ S : ~delete_original[r]
    /\ pngs = 1..MaxPng
    /\ png_files = [r \in Starts |-> <<>>]
    /\ PIEXIF_AVAILABLE = piexif
    /\ ppc = [p \in Polls |-> IF polls THEN "new" ELSE "off"]
    /\ snapshot = [p \in Polls |-> <<>>]

\* start and cancel requests; every body has delete_original false
InitCompress == InitJob(Starts, {FALSE}, TRUE, FALSE, TRUE)

\* start requests only, with delete_original either way
InitDelete == InitJob(Starts, BOOLEAN, FALSE, FALSE, TRUE)

\* one start request, cancel and progress requests
InitPoll == InitJob({1}, {FALSE}, TRUE, TRUE, TRUE)

\* start requests only, piexif missing
InitNoExif == InitJob(Starts, {FALSE}, FALSE, FALSE, FALSE)

\* The event loop runs one handler at a time: a handler that has started and
\* has not reached an await or its return keeps the loop.
LoopFree ==
    /\ \A c \in Cancels : cpc[c] # "L502"
    /\ \A p \in Polls : ppc[p] \notin {"L463", "L464"}

(***************************************************************************)
(* execute_compress_endpoint                                               *)
(***************************************************************************)
\* ExecCheck without the early return of lines 427-433
ExecCheck_NoGuard(r) ==
    /\ LoopFree
    /\ hpc[r] = "new"
    /\ hpc' = [hpc EXCEPT ![r] = "await"]
    /\ UNCHANGED <<is_running, cancel_requested, progress, resp, target, wpc, idx,
                   npng, result, cpc, cresp, cancelAcked, begunAfterCancel,
                   retained, dvars, pvars, avars, kvars, ovars>>

\* lines 426-435: the guard, up to `await request.json()`
ExecCheck(r) ==
    /\ LoopFree
    /\ hpc[r] = "new"
    /\ IF is_running
         THEN /\ hpc' = [hpc EXCEPT ![r] = "done"]
              /\ resp' = [resp EXCEPT ![r] = "rejected"]
         ELSE /\ hpc' = [hpc EXCEPT ![r] = "await"]
              /\ resp' = resp
    /\ UNCHANGED <<is_running, cancel_requested, progress, target, wpc, idx, npng,
                   result, cpc, cresp, cancelAcked, begunAfterCancel, retained, dvars, pvars, avars, kvars, ovars>>

\* ExecSubmit with the handler setting is_running itself
ExecSubmit_SetsRunning(r) ==
    /\ LoopFree
    /\ hpc[r] = "await"
    /\ \E t \in Targets : target' = [target EXCEPT ![r] = t]
    /\ hpc' = [hpc EXCEPT ![r] = "done"]
    /\ resp' = [resp EXCEPT ![r] = "accepted"]
    /\ wpc' = [wpc EXCEPT ![r] = "queued"]
    /\ is_running' = TRUE
    /\ UNCHANGED <<cancel_requested, progress, idx, npng, result,
                   cpc, cresp, cancelAcked, begunAfterCancel, retained, dvars,
                   pvars, avars, kvars, ovars>>

\* lines 435-447: the body arrives, the batch is handed to the executor and
\* the acknowledgement is returned
ExecSubmit(r) ==
    /\ LoopFree
    /\ hpc[r] = "await"
    /\ \E t \in Targets : target' = [target EXCEPT ![r] = t]
    /\ hpc' = [hpc EXCEPT ![r] = "done"]
    /\ resp' = [resp EXCEPT ![r] = "accepted"]
    /\ wpc' = [wpc EXCEPT ![r] = "queued"]
    /\ UNCHANGED <<is_running, cancel_requested, progress, idx, npng, result,
                   cpc, cresp, cancelAcked, begunAfterCancel, retained, dvars,
                   pvars, avars, kvars, ovars>>

(***************************************************************************)
(* cancel_compress_endpoint and request_cancel                             *)
(***************************************************************************)
\* lines 496-500
CancelCheck(c) ==
    /\ LoopFree
    /\ cpc[c] = "new"
    /\ IF ~is_running
         THEN /\ cpc' = [cpc EXCEPT ![c] = "done"]
              /\ cresp' = [cresp EXCEPT ![c] = "rejected"]
         ELSE /\ cpc' = [cpc EXCEPT ![c] = "L502"]
              /\ cresp' = cresp
    /\ UNCHANGED <<is_running, cancel_requested, progress, hpc, resp, target, wpc,
                   idx, npng, result, cancelAcked, begunAfterCancel, retained, dvars, pvars, avars, kvars, ovars>>

\* request_cancel leaving the flag as it is
request_cancel_Lost == cancel_requested

\* lines 255-258
request_cancel == TRUE

\* lines 502-507
CancelSet(c) ==
    /\ cpc[c] = "L502"
    /\ cancel_requested' = request_cancel
    /\ cpc' = [cpc EXCEPT ![c] = "done"]
    /\ cresp' = [cresp EXCEPT ![c] = "accepted"]
    /\ cancelAcked' = [r \in Starts |-> cancelAcked[r] \/ wpc[r] \in ActivePCs]
    /\ UNCHANGED <<is_running, progress, hpc, resp, target, wpc, idx, npng,
                   result, begunAfterCancel, retained, dvars, pvars, avars, kvars, ovars>>

(***************************************************************************)
(* get_compress_progress: the handler has no await, but the workers run    *)
(* between its statements.                                                 *)
(***************************************************************************)
\* line 462: progress.copy()
GP_Copy(p) ==
    /\ LoopFree
    /\ ppc[p] = "new"
    /\ snapshot' = [snapshot EXCEPT ![p] = [progress |-> progress]]
    /\ ppc' = [ppc EXCEPT ![p] = "L463"]
    /\ UNCHANGED <<is_running, cancel_requested, progress, hpc, resp, target, wpc,
                   idx, npng, result, cpc, cresp, cancelAcked, begunAfterCancel,
                   retained, dvars, avars, kvars, ovars>>

\* line 463
GP_Running(p) ==
    /\ ppc[p] = "L463"
    /\ snapshot' = [snapshot EXCEPT ![p] =
                      [progress |-> @.progress, is_running |-> is_running]]
    /\ ppc' = [ppc EXCEPT ![p] = "L464"]
    /\ UNCHANGED <<is_running, cancel_requested, progress, hpc, resp, target, wpc,
                   idx, npng, result, cpc, cresp, cancelAcked, begunAfterCancel,
                   retained, dvars, avars, kvars, ovars>>

\* lines 464-484: the last field is read, percent is derived and the
\* response is sent
GP_Respond(p) ==
    /\ ppc[p] = "L464"
    /\ snapshot' = [snapshot EXCEPT ![p] =
                      [progress |-> @.progress, is_running |-> @.is_running,
                       cancel_requested |-> cancel_requested,
                       percent |-> IF @.progress.total > 0
                                     THEN (@.progress.current * 100) \div @.progress.total
                                     ELSE 0]]
    /\ ppc' = [ppc EXCEPT ![p] = "done"]
    /\ UNCHANGED <<is_running, cancel_requested, progress, hpc, resp, target, wpc,
                   idx, npng, result, cpc, cresp, cancelAcked, begunAfterCancel,
                   retained, dvars, avars, kvars, ovars>>

get_compress_progress(p) == GP_Copy(p) \/ GP_Running(p) \/ GP_Respond(p)

(***************************************************************************)
(* CompressionService.compress_directory, one call per accepted request.   *)
(***************************************************************************)
\* lines 275-282: the guard
CD_Guard(r) ==
    /\ wpc[r] = "queued"
    /\ wpc' = [wpc EXCEPT ![r] = IF is_running THEN "refused" ELSE "L284"]
    /\ UNCHANGED <<is_running, cancel_requested, progress, hpc, resp, target, idx,
                   npng, result, cpc, cresp, cancelAcked, begunAfterCancel,
                   retained, dvars, pvars, avars, kvars, ovars>>

\* line 284
CD_SetRunning(r) ==
    /\ wpc[r] = "L284"
    /\ is_running' = TRUE
    /\ wpc' = [wpc EXCEPT ![r] = "L285"]
    /\ UNCHANGED <<cancel_requested, progress, hpc, resp, target, idx, npng, result,
                   cpc, cresp, cancelAcked, begunAfterCancel, retained, dvars, pvars, avars, kvars, ovars>>

\* line 285
CD_ClearCancel(r) ==
    /\ wpc[r] = "L285"
    /\ cancel_requested' = FALSE
    /\ wpc' = [wpc EXCEPT ![r] = "L286"]
    /\ UNCHANGED <<is_running, progress, hpc, resp, target, idx, npng, result,
                   cpc, cresp, cancelAcked, begunAfterCancel, retained, dvars, pvars, avars, kvars, ovars>>

\* line 286
CD_Reset(r) ==
    /\ wpc[r] = "L286"
    /\ progress' = reset_progress
    /\ retained' = <<>>
    /\ wpc' = [wpc EXCEPT ![r] = "L314"]
    /\ UNCHANGED <<is_running, cancel_requested, hpc, resp, target, idx, npng,
                   result, cpc, cresp, cancelAcked, begunAfterCancel, dvars, pvars, avars, kvars, ovars>>

\* lines 291-320: the target directory is resolved and verified; a missing
\* directory returns from inside the try block, so the finally block runs
CD_VerifyDir(r) ==
    /\ wpc[r] = "L314"
    /\ IF DirExists(target[r])
         THEN /\ wpc' = [wpc EXCEPT ![r] = "L345"]
              /\ UNCHANGED retained
         ELSE /\ wpc' = [wpc EXCEPT ![r] = "L406"]
              /\ retained' = <<progress>>
    /\ UNCHANGED <<is_running, cancel_requested, progress, hpc, resp, target, idx,
                   npng, result, cpc, cresp, cancelAcked, begunAfterCancel, dvars, pvars, avars, kvars, ovars>>

\* lines 331-346: the candidates are enumerated and progress["total"] is set
CD_Enumerate(r) ==
    /\ wpc[r] = "L345"
    /\ png_files' = [png_files EXCEPT ![r] = ListPng(target[r])]
    /\ npng' = [npng EXCEPT ![r] = PngCount(target[r])]
    /\ idx' = [idx EXCEPT ![r] = 0]
    /\ progress' = [progress EXCEPT !.total = PngCount(target[r])]
    /\ wpc' = [wpc EXCEPT ![r] = "L349"]
    /\ UNCHANGED <<is_running, cancel_requested, hpc, resp, target, result, cpc,
                   cresp, cancelAcked, begunAfterCancel, retained, delete_original,
                   pngs, PIEXIF_AVAILABLE, pvars, avars, kvars, ovars>>

\* lines 349-353: the next candidate is taken unless the candidates are
\* exhausted or cancel_requested is set
CD_LoopCheck(r) ==
    /\ wpc[r] = "L349"
    /\ IF idx[r] >= npng[r] \/ cancel_requested
         THEN /\ wpc' = [wpc EXCEPT ![r] = "L406"]
              /\ retained' = <<progress>>
              /\ UNCHANGED begunAfterCancel
         ELSE /\ wpc' = [wpc EXCEPT ![r] = "L356"]
              /\ begunAfterCancel' =
                    [begunAfterCancel EXCEPT ![r] = @ \/ cancelAcked[r]]
              /\ UNCHANGED retained
    /\ UNCHANGED <<is_running, cancel_requested, progress, hpc, resp, target, idx,
                   npng, result, cpc, cresp, cancelAcked, dvars, pvars, avars, kvars, ovars>>

\* lines 355-357
CD_Begin(r) ==
    /\ wpc[r] = "L356"
    /\ progress' = [progress EXCEPT !.current = idx[r] + 1]
    /\ wpc' = [wpc EXCEPT ![r] = "L359"]
    /\ UNCHANGED <<is_running, cancel_requested, hpc, resp, target, idx, npng,
                   result, cpc, cresp, cancelAcked, begunAfterCancel, retained, dvars, pvars, avars, kvars, ovars>>

\* line 359: compress_image returns a result, having removed the source if
\* the result says so
CD_Compress(r) ==
    /\ wpc[r] = "L359"
    /\ \E o \in compress_image(png_files[r][idx[r] + 1], delete_original[r]) :
          /\ result' = [result EXCEPT ![r] = o]
          /\ pngs' = IF o.removed = "yes" THEN pngs \ {png_files[r][idx[r] + 1]}
                     ELSE pngs
    /\ wpc' = [wpc EXCEPT ![r] = "L361"]
    /\ UNCHANGED <<is_running, cancel_requested, progress, hpc, resp, target, idx,
                   npng, cpc, cresp, cancelAcked, begunAfterCancel, retained,
                   delete_original, png_files, PIEXIF_AVAILABLE, pvars, avars,
                   kvars, ovars>>

\* lines 361-364 and 373-377: compress_image sets result["error"] whenever
\* it returns without success, so the else branch counts an error
CD_Fold(r) ==
    /\ wpc[r] = "L361"
    /\ IF result[r].success
         THEN /\ progress' = [progress EXCEPT !.compressed = @ + 1]
              /\ wpc' = [wpc EXCEPT ![r] = "L367"]
              /\ idx' = idx
              /\ result' = result
         ELSE /\ progress' = [progress EXCEPT !.errors = @ + 1]
              /\ wpc' = [wpc EXCEPT ![r] = "L349"]
              /\ idx' = [idx EXCEPT ![r] = @ + 1]
              /\ result' = [result EXCEPT ![r] = NoResult]
    /\ UNCHANGED <<is_running, cancel_requested, hpc, resp, target, npng,
                   cpc, cresp, cancelAcked, begunAfterCancel, retained, dvars, pvars, avars, kvars, ovars>>

\* lines 366-372
CD_FoldMeta(r) ==
    /\ wpc[r] = "L367"
    /\ progress' =
          CASE result[r].metadata_status = "full" ->
                    [progress EXCEPT !.metadata_full = @ + 1]
            [] result[r].metadata_status = "workflow_only" ->
                    [progress EXCEPT !.metadata_partial = @ + 1]
            [] OTHER -> [progress EXCEPT !.metadata_none = @ + 1]
    /\ wpc' = [wpc EXCEPT ![r] = "L349"]
    /\ idx' = [idx EXCEPT ![r] = @ + 1]
    /\ result' = [result EXCEPT ![r] = NoResult]
    /\ UNCHANGED <<is_running, cancel_requested, hpc, resp, target, npng,
                   cpc, cresp, cancelAcked, begunAfterCancel, retained, dvars, pvars, avars, kvars, ovars>>

\* line 406, first statement of the finally block
CD_ClearRunning(r) ==
    /\ wpc[r] = "L406"
    /\ is_running' = FALSE
    /\ wpc' = [wpc EXCEPT ![r] = "L407"]
    /\ UNCHANGED <<cancel_requested, progress, hpc, resp, target, idx, npng, result,
                   cpc, cresp, cancelAcked, begunAfterCancel, retained, dvars, pvars, avars, kvars, ovars>>

\* line 407, second statement of the finally block; the call returns
CD_Finish(r) ==
    /\ wpc[r] = "L407"
    /\ cancel_requested' = FALSE
    /\ wpc' = [wpc EXCEPT ![r] = "done"]
    /\ UNCHANGED <<is_running, progress, hpc, resp, target, idx, npng, result,
                   cpc, cresp, cancelAcked, begunAfterCancel, retained, dvars, pvars, avars, kvars, ovars>>

compress_directory(r) ==
    \/ CD_Guard(r) \/ CD_SetRunning(r) \/ CD_ClearCancel(r) \/ CD_Reset(r)
    \/ CD_VerifyDir(r) \/ CD_Enumerate(r) \/ CD_LoopCheck(r) \/ CD_Begin(r)
    \/ CD_Compress(r) \/ CD_Fold(r) \/ CD_FoldMeta(r)
    \/ CD_ClearRunning(r) \/ CD_Finish(r)

InitCodecIdle ==
    /\ metadata = <<>> /\ kpc = "off" /\ exif_dict = <<>> /\ metadata_status = "none"

InitNamingIdle ==
    /\ dir_names = {} /\ output_format = "JPEG" /\ opc = "off" /\ todo = {}
    /\ outputs = <<>> /\ compressed_count = 0

InitArchiveIdle ==
    /\ dirs = {} /\ files = <<>> /\ config = <<>> /\ apc = "off" /\ pending = {}
    /\ cwd = <<>> /\ listing = {} /\ sweep = {} /\ moved_count = 0
    /\ skipped_count = 0 /\ error_count = 0 /\ removed_dirs = 0 /\ aresult = <<>>
    /\ runs = 0 /\ faults = 0 /\ log = {} /\ files0 = <<>> /\ dirs0 = {}
    /\ prev = <<>>

Init == InitCompress /\ InitArchiveIdle /\ InitCodecIdle /\ InitNamingIdle

Next ==
    \/ \E r \in Starts : ExecCheck(r)
    \/ \E r \in Starts : ExecSubmit(r)
    \/ \E c \in Cancels : CancelCheck(c)
    \/ \E c \in Cancels : CancelSet(c)
    \/ \E r \in Starts : compress_directory(r)

Spec == Init /\ [][Next]_vars

\* batches with delete_original set or not, and no cancel
NextDelete ==
    \/ \E r \in Starts : ExecCheck(r)
    \/ \E r \in Starts : ExecSubmit(r)
    \/ \E r \in Starts : compress_directory(r)

InitD == InitDelete /\ InitArchiveIdle /\ InitCodecIdle /\ InitNamingIdle

SpecDelete == InitD /\ [][NextDelete]_vars

\* one batch, with cancel and progress requests around it
NextPoll ==
    \/ Next
    \/ \E p \in Polls : get_compress_progress(p)

InitP == InitPoll /\ InitArchiveIdle /\ InitCodecIdle /\ InitNamingIdle

SpecPoll == InitP /\ [][NextPoll]_vars

\* batches in a runtime without piexif, and no cancel
InitN == InitNoExif /\ InitArchiveIdle /\ InitCodecIdle /\ InitNamingIdle

NextNoExif == NextDelete

SpecNoExif == InitN /\ [][NextNoExif]_vars

\* positions of compress_directory inside the try block of lines 290-403
TryPCs == {"L314"} \cup LoopPCs

\* an exception leaving compress_directory with no finally block run
CD_Raise_NoFinally(r) ==
    /\ wpc[r] \in TryPCs
    /\ wpc' = [wpc EXCEPT ![r] = "done"]
    /\ result' = [result EXCEPT ![r] = NoResult]
    /\ retained' = <<progress>>
    /\ UNCHANGED <<is_running, cancel_requested, progress, hpc, resp, target, idx,
                   npng, cpc, cresp, cancelAcked, begunAfterCancel, dvars, pvars,
                   avars, kvars, ovars>>

\* lines 290-407: a statement of the try block raises; there is no except
\* clause, so control goes to the finally block and the exception leaves the
\* call after it
CD_Raise(r) ==
    /\ wpc[r] \in TryPCs
    /\ wpc' = [wpc EXCEPT ![r] = "L406"]
    /\ result' = [result EXCEPT ![r] = NoResult]
    /\ retained' = <<progress>>
    /\ UNCHANGED <<is_running, cancel_requested, progress, hpc, resp, target, idx,
                   npng, cpc, cresp, cancelAcked, begunAfterCancel, dvars, pvars,
                   avars, kvars, ovars>>

\* one start request and the cancel requests
InitFair == InitJob({1}, {FALSE}, TRUE, FALSE, TRUE)

InitF == InitFair /\ InitArchiveIdle /\ InitCodecIdle /\ InitNamingIdle

NextFair ==
    \/ Next
    \/ \E r \in Starts : CD_Raise(r)

\* line 440: run_in_executor hands the call to a thread of the default
\* ThreadPoolExecutor, which runs it, and the thread keeps being scheduled
\* until the call returns
Fairness == \A r \in Starts : WF_vars(compress_directory(r))

SpecFair == InitF /\ [][NextFair]_vars /\ Fairness

(***************************************************************************)
(* Compression Engine: properties.                                         *)
(***************************************************************************)
Looping == {r \in Starts : wpc[r] \in LoopPCs}

\* C1: at most one batch is in its enumeration or per-file loop at any time.
C1_SingleBatch == Cardinality(Looping) <= 1

\* C2: a start whose guard finds is_running set is rejected and leaves
\* is_running, cancel_requested and every field of progress as they were;
\* the same holds of the guard inside compress_directory.
C2_RejectedStartMutatesNothing ==
    [][\A r \in Starts :
         /\ (is_running /\ hpc[r] = "new" /\ hpc'[r] # "new") =>
               (resp'[r] = "rejected" /\ wpc'[r] = "none" /\ UNCHANGED shared)
         /\ (is_running /\ wpc[r] = "queued" /\ wpc'[r] # "queued") =>
               (wpc'[r] = "refused" /\ UNCHANGED shared)]_vars

\* a start was rejected while a batch with progress made is running
C2_Witness ==
    \E r \in Starts :
        /\ resp[r] = "rejected"
        /\ is_running
        /\ progress.current > 0
        /\ \E q \in Starts : wpc[q] \in LoopPCs

\* C3: once a start has been acknowledged and until its batch ends,
\* is_running is set.
C3_AcceptedMeansRunning ==
    \A r \in Starts :
        (resp[r] = "accepted" /\ wpc[r] \notin {"L407", "done", "refused"})
            => is_running

\* C4: a batch that was active when a cancel was accepted takes no further
\* candidate.
C4_NoCandidateAfterCancel == \A r \in Starts : ~begunAfterCancel[r]

\* C5: a cancel that finds is_running clear is rejected and changes nothing;
\* one that finds it set goes on to set cancel_requested and is accepted,
\* changing nothing else.
C5_Cancel ==
    [][\A c \in Cancels :
         /\ (~is_running /\ cpc[c] = "new" /\ cpc'[c] # "new") =>
               (cresp'[c] = "rejected" /\ cpc'[c] = "done" /\ UNCHANGED shared)
         /\ (is_running /\ cpc[c] = "new" /\ cpc'[c] # "new") =>
               (cpc'[c] = "L502" /\ UNCHANGED shared)
         /\ (cpc[c] = "L502" /\ cpc'[c] # "L502") =>
               (/\ cancel_requested'
                /\ cresp'[c] = "accepted"
                /\ UNCHANGED <<is_running, progress>>)]_vars

\* a cancel has been accepted and answered while the batch is still in its loop
C5_Witness ==
    \E c \in Cancels :
        /\ cresp[c] = "accepted"
        /\ cancel_requested
        /\ \E r \in Starts : wpc[r] \in LoopPCs /\ idx[r] < npng[r]

\* C6: from the end of a batch until the next reset_progress the progress
\* record keeps the values the batch left.
C6_ProgressRetained == retained # <<>> => progress = retained[1]

\* C7: a batch whose target directory is missing reaches its finally block
\* with no candidate processed and the progress record still zeroed.
C7_MissingDirAborts ==
    \A r \in Starts :
        (~DirExists(target[r]) /\ wpc[r] = "L406")
            => (progress = ZeroProgress /\ idx[r] = 0 /\ npng[r] = 0)

\* C15: when the loop of a batch ends with its candidates exhausted, the
\* progress record has current = total and compressed + errors = total.
C15_AllProcessed ==
    \A r \in Starts :
        (wpc[r] = "L406" /\ DirExists(target[r]) /\ idx[r] = npng[r])
            => /\ progress.current = progress.total
               /\ progress.compressed + progress.errors = progress.total

\* the step of worker r in which compress_image returns
CompressStep(r) == wpc[r] = "L359" /\ wpc'[r] = "L361"

\* a source file disappears only in a compress_image call on that file of a
\* batch with delete_original set, returning success with a size above zero
RemovedOnRequest ==
    \A f \in pngs \ pngs' :
        \E r \in Starts :
            /\ CompressStep(r)
            /\ png_files[r][idx[r] + 1] = f
            /\ delete_original[r]
            /\ result'[r].success
            /\ result'[r].compressed_size > 0

\* a call whose os.remove failed returns success and leaves the file
FailedRemoveKeepsSuccess ==
    \A r \in Starts :
        (CompressStep(r) /\ result'[r].removed = "failed")
            => /\ result'[r].success
               /\ png_files[r][idx[r] + 1] \in pngs'

\* when the loop of a batch with delete_original false has ended, every
\* candidate it enumerated still exists
SourcesKept ==
    \A r \in Starts :
        (~delete_original[r] /\ wpc[r] = "L406")
            => \A i \in 1..Len(png_files[r]) : png_files[r][i] \in pngs

\* C18: a source file is removed only if delete_original was requested, its
\* call succeeded and its compressed size is above zero; a failed deletion
\* leaves the result successful; and with delete_original false every source
\* file the batch started with exists when the batch ends.
C18_DeleteOnlyOnRequest ==
    [][RemovedOnRequest /\ FailedRemoveKeepsSuccess]_vars /\ []SourcesKept

\* a step of a compress_directory call, and the step of the cancel handler
\* that calls request_cancel
WorkerStep == \E r \in Starts : wpc[r] # "none" /\ wpc'[r] # wpc[r]
CancelStep == \E c \in Cancels : cpc[c] = "L502" /\ cpc'[c] = "done"

\* C19 as stated: is_running, cancel_requested and the progress record
\* change only in steps of a worker.
C19_OnlyWorkerWrites == [][shared' # shared => WorkerStep]_vars

\* C19: is_running and the progress record change only in steps of a
\* worker; cancel_requested changes in steps of a worker, and is set to
\* true by the cancel handler; the start and progress handlers write none.
C19_WorkerWritesCancelSets ==
    [][/\ (is_running' # is_running \/ progress' # progress) => WorkerStep
       /\ cancel_requested' # cancel_requested
             => (WorkerStep \/ (CancelStep /\ cancel_requested'))]_vars

\* a cancel was accepted and a progress request answered while the batch was
\* in its loop, and the batch has returned
C19_Witness ==
    /\ \E c \in Cancels : cresp[c] = "accepted"
    /\ \E p \in Polls : ppc[p] = "done" /\ snapshot[p].progress.current >= 1
    /\ \E r \in Starts : wpc[r] = "done"

\* C20: the progress record copied by a progress request has
\* metadata_full + metadata_partial + metadata_none = compressed and
\* compressed + errors <= current <= total.
C20_SnapshotConsistent ==
    \A p \in Polls :
        snapshot[p] # <<>>
            => LET s == snapshot[p].progress IN
               /\ s.metadata_full + s.metadata_partial + s.metadata_none = s.compressed
               /\ s.compressed + s.errors <= s.current
               /\ s.current <= s.total

(***************************************************************************)
(* Archive Engine (src/archive_api.py).                                    *)
(*                                                                         *)
(* A name is a sequence of characters, a path the sequence of names below  *)
(* the output directory (<<>> is the output directory itself).             *)
(***************************************************************************)
MaxFiles == 2       \* files in the initial tree
MaxEmptyDirs == 1   \* directories of the initial tree besides those the files need
MaxMtime == 2       \* modification times are 0..MaxMtime
DayLen == 2         \* timestamps per calendar day
MaxFaults == 1      \* filesystem failures raised in one behaviour
MaxRuns == 2        \* execute_archive calls in one behaviour

Unreadable == 0 - 1 \* mtime of a file whose os.path.getmtime raises

OutputDirStr == <<"/", "o">>            \* folder_paths.get_output_directory()
ArchiveFolderName == <<"A">>            \* config["archive_folder_name"]
\* config["skip_extensions"]: " .P, ,"
SkipExtensions == <<" ", ".", "P", ",", " ", ",">>

NameS == <<"s">>
NameT == <<"t">>
NameA2 == <<"A", "2">>
NamePriv == <<"_", "p">>
NameDb == <<"d", "a", "t", "a", "b", "a", "s", "e">>
FileF == <<"f">>
FileHidden == <<".", "f">>
FileExt == <<"f", ".", "P">>

\* str.lower, on the characters used
LowerChar(ch) ==
    CASE ch = "P" -> "p"
      [] ch = "N" -> "n"
      [] ch = "G" -> "g"
      [] OTHER -> ch
Lower(n) == [i \in 1..Len(n) |-> LowerChar(n[i])]

\* str.startswith, str.endswith
StartsWith(str, pre) == Len(pre) <= Len(str) /\ SubSeq(str, 1, Len(pre)) = pre
EndsWith(str, suf) ==
    Len(suf) <= Len(str) /\ SubSeq(str, Len(str) - Len(suf) + 1, Len(str)) = suf

\* str.split(','): the pieces between the commas, empty pieces included
RECURSIVE Split(_)
Split(str) ==
    IF \A i \in 1..Len(str) : str[i] # ","
      THEN <<str>>
    ELSE LET i == CHOOSE k \in 1..Len(str) :
                      str[k] = "," /\ \A j \in 1..(k - 1) : str[j] # ","
         IN  <<SubSeq(str, 1, i - 1)>> \o Split(SubSeq(str, i + 1, Len(str)))

\* str.strip(), on the characters used
RECURSIVE Strip(_)
Strip(str) ==
    IF str # <<>> /\ str[1] = " " THEN Strip(Tail(str))
    ELSE IF str # <<>> /\ str[Len(str)] = " " THEN Strip(SubSeq(str, 1, Len(str) - 1))
    ELSE str

\* line 127: [ext.strip().lower() for ext in skip_extensions.split(',') if ext.strip()]
NonEmpty(str) == Strip(str) # <<>>
parse_skip_extensions(raw) ==
    LET kept == SelectSeq(Split(raw), NonEmpty)
    IN  [i \in 1..Len(kept) |-> Lower(Strip(kept[i]))]

SkipExtList == parse_skip_extensions(SkipExtensions)

\* os.path.abspath of a path below the output directory, as a string
RECURSIVE AbsPath(_)
AbsPath(p) ==
    IF p = <<>> THEN OutputDirStr
    ELSE AbsPath(SubSeq(p, 1, Len(p) - 1)) \o <<"/">> \o p[Len(p)]

Parent(p) == SubSeq(p, 1, Len(p) - 1)
Base(p) == p[Len(p)]
Prefixes(p) == {SubSeq(p, 1, k) : k \in 0..Len(p)}

\* os.path.exists
Exists(p) == p \in dirs \/ p \in DOMAIN files

\* the entries of a directory: os.scandir / os.listdir
SubDirs(d) == {q \in dirs : q # <<>> /\ Parent(q) = d}
FilesIn(d) == {q \in DOMAIN files : Parent(q) = d}
IsEmptyDir(d) == SubDirs(d) = {} /\ FilesIn(d) = {}

\* os.makedirs(path, exist_ok=True) can succeed unless a file is in the way
CanMakeDirs(p) == \A q \in Prefixes(p) : q \notin DOMAIN files

\* line 111
archive_base_folder == <<ArchiveFolderName>>

\* datetime.fromtimestamp(t).strftime("%Y-%m-%d"): the day of the timestamp
DateStr(t) == <<"D", ToString(t \div DayLen)>>

\* _get_file_date_str falling back to the first day when getmtime raises
get_file_date_str_Epoch(file_path) ==
    IF files[file_path].mtime = Unreadable THEN DateStr(0)
    ELSE DateStr(files[file_path].mtime)

\* _get_file_date_str: None becomes <<>>
get_file_date_str(file_path) ==
    IF files[file_path].mtime = Unreadable THEN <<>>
    ELSE DateStr(files[file_path].mtime)

\* _should_skip_file comparing the name as it is spelled
should_skip_file_CaseSensitive(file_name, skip_hidden, skip_ext_list) ==
    \/ skip_hidden /\ StartsWith(file_name, <<".">>)
    \/ \E i \in 1..Len(skip_ext_list) : EndsWith(file_name, skip_ext_list[i])

\* _should_skip_file
should_skip_file(file_name, skip_hidden, skip_ext_list) ==
    \/ skip_hidden /\ StartsWith(file_name, <<".">>)
    \/ \E i \in 1..Len(skip_ext_list) : EndsWith(Lower(file_name), skip_ext_list[i])

\* line 147 with the test for a leading underscore left out
should_skip_directory_DbOnly(d) == d = NameDb

\* line 147: the directories os.walk is kept out of
should_skip_directory(d) == d = NameDb \/ StartsWith(d, <<"_">>)

\* the walk with no directory cut off as the archive folder
InArchive_Never(d) == FALSE

\* line 140 (and line 70): the string test for "inside the archive folder"
InArchive(d) == StartsWith(AbsPath(d), AbsPath(archive_base_folder))

\* the target folder without the relative path
target_folder_Flat(root, date_str) == archive_base_folder \o <<date_str>>

\* lines 164-169: os.path.relpath is "." for the output directory itself
target_folder(root, date_str) ==
    IF root = <<>> THEN archive_base_folder \o <<date_str>>
    ELSE archive_base_folder \o <<date_str>> \o root

(***************************************************************************)
(* The initial trees: up to MaxFiles of the files below, each with a       *)
(* modification time, the directories they need, and up to MaxEmptyDirs    *)
(* further directories.                                                    *)
(***************************************************************************)
SourceSlots ==
    { <<FileF>>, <<FileHidden>>, <<FileExt>>, <<NameS, FileF>>,
      <<NameS, NameT, FileF>> }
OtherSlots ==
    { <<NamePriv, FileF>>, <<NameDb, FileF>>, <<NameA2, FileF>>,
      <<NameS, NamePriv, NameT, FileF>>,
      <<ArchiveFolderName, DateStr(0), FileF>>,
      <<ArchiveFolderName, DateStr(0), NameS, FileF>> }
DirSlots ==
    { <<NameS>>, <<NameS, NameT>>, <<NameA2>>, <<NamePriv>>, <<NamePriv, NameT>>,
      <<ArchiveFolderName>> }

Mtimes(p) == IF p \in SourceSlots THEN (0..MaxMtime) \cup {Unreadable} ELSE {0}

\* the data of a file stands for its content: here, the place it first was
InitArchive ==
    /\ \E F \in {X \in SUBSET (SourceSlots \cup OtherSlots) : Cardinality(X) <= MaxFiles} :
       \E E \in {Y \in SUBSET DirSlots : Cardinality(Y) <= MaxEmptyDirs} :
       \E m \in {g \in [F -> (0..MaxMtime) \cup {Unreadable}] :
                    \A q \in F : g[q] \in Mtimes(q)} :
          /\ files = [q \in F |-> [mtime |-> m[q], data |-> q]]
          /\ dirs = UNION {Prefixes(Parent(q)) : q \in F}
                      \cup UNION {Prefixes(d) : d \in E} \cup {<<>>}
    /\ config \in [skip_hidden_files : BOOLEAN]
    /\ apc = "idle"
    /\ pending = {} /\ cwd = <<>> /\ listing = {} /\ sweep = {}
    /\ moved_count = 0 /\ skipped_count = 0 /\ error_count = 0 /\ removed_dirs = 0
    /\ aresult = <<>> /\ runs = 0 /\ faults = 0
    /\ log = {} /\ files0 = files /\ dirs0 = dirs /\ prev = <<>>

\* a filesystem call may fail while the fault budget lasts
FaultChoices == IF faults < MaxFaults THEN BOOLEAN ELSE {FALSE}

\* _ensure_directory_exists answering True whatever os.makedirs did
ensure_directory_exists_Always(path, fail) == TRUE

\* _ensure_directory_exists(path): the value returned and the directories after
\* the call, when os.makedirs fails (fail) or not
ensure_directory_exists(path, fail) == Exists(path) \/ (CanMakeDirs(path) /\ ~fail)
DirsAfterEnsure(path, fail) ==
    IF ~Exists(path) /\ CanMakeDirs(path) /\ ~fail THEN dirs \cup Prefixes(path)
    ELSE dirs

\* lines 98-133: the archive folder is set up and the counters start at zero;
\* a failure to create the folder returns the error result
AR_Start ==
    /\ apc \in {"idle", "done"}
    /\ runs < MaxRuns
    /\ \E fail \in FaultChoices :
          /\ fail => ~Exists(archive_base_folder)
          /\ faults' = IF fail THEN faults + 1 ELSE faults
          /\ dirs' = DirsAfterEnsure(archive_base_folder, fail)
          /\ IF ensure_directory_exists(archive_base_folder, fail)
               THEN /\ apc' = "walk"
                    /\ pending' = {<<>>}
                    /\ aresult' = <<>>
                    /\ runs' = runs
               ELSE /\ apc' = "done"
                    /\ pending' = {}
                    /\ aresult' = [success |-> FALSE, moved |-> 0, skipped |-> 0,
                                   errors |-> 0, removed_dirs |-> 0]
                    /\ runs' = runs + 1
    /\ moved_count' = 0 /\ skipped_count' = 0 /\ error_count' = 0 /\ removed_dirs' = 0
    /\ cwd' = <<>> /\ listing' = {} /\ sweep' = {}
    /\ log' = {} /\ files0' = files /\ dirs0' = dirs
    /\ prev' = IF apc = "done" THEN <<aresult>> ELSE <<>>
    /\ UNCHANGED <<files, config, cvars, kvars, ovars>>

\* lines 138-147: os.walk yields the next directory; the archive folder is
\* cut off, and so are the sub-directories line 147 filters out.  The order
\* of the walk is the file system's: any directory found and not yet visited
\* may come next.
AR_VisitDir ==
    /\ apc = "walk"
    /\ \E top \in pending :
          IF InArchive(top)
            THEN /\ pending' = pending \ {top}
                 /\ UNCHANGED <<cwd, listing, apc>>
            ELSE /\ pending' = (pending \ {top})
                        \cup {q \in SubDirs(top) : ~should_skip_directory(Base(q))}
                 /\ cwd' = top
                 /\ listing' = {Base(q) : q \in FilesIn(top)}
                 /\ apc' = IF FilesIn(top) = {} THEN "walk" ELSE "files"
    /\ UNCHANGED <<dirs, files, config, sweep, moved_count, skipped_count, error_count,
                   removed_dirs, aresult, runs, faults, log, files0, dirs0, prev, cvars, kvars, ovars>>

\* _move_file_to_archive without the os.path.exists test of line 51
move_file_to_archive_Overwrite(file_path, target_path, dirsNow, fail) ==
    IF fail \/ Parent(target_path) \notin dirsNow THEN "error" ELSE "moved"

\* _move_file_to_archive reporting a failed shutil.move as a taken target
move_file_to_archive_Swallow(file_path, target_path, dirsNow, fail) ==
    IF target_path \in dirsNow \/ target_path \in DOMAIN files THEN "exists"
    ELSE IF fail \/ Parent(target_path) \notin dirsNow THEN "exists"
    ELSE "moved"

\* _move_file_to_archive after a successful _ensure_directory_exists:
\* "exists" when the target path is taken, "error" when shutil.move raises
\* (fail, or the target folder is not a directory), else "moved"
move_file_to_archive(file_path, target_path, dirsNow, fail) ==
    IF target_path \in dirsNow \/ target_path \in DOMAIN files THEN "exists"
    ELSE IF fail \/ Parent(target_path) \notin dirsNow THEN "error"
    ELSE "moved"

\* the loop body with a taken target path counted nowhere
AR_File_ExistsUncounted ==
    /\ apc = "files"
    /\ \E file_name \in listing :
       LET file_path == cwd \o <<file_name>>
           date_str == get_file_date_str(file_path)
           folder == target_folder(cwd, date_str)
           target_path == folder \o <<file_name>>
       IN
       /\ listing' = listing \ {file_name}
       /\ apc' = IF listing = {file_name} THEN "walk" ELSE "files"
       /\ IF should_skip_file(file_name, config.skip_hidden_files, SkipExtList)
              \/ date_str = <<>>
            THEN /\ skipped_count' = skipped_count + 1
                 /\ log' = log \cup {[src |-> file_path, kind |-> "skipped", dst |-> <<>>]}
                 /\ UNCHANGED <<dirs, files, moved_count, error_count, faults>>
            ELSE \E failMk \in FaultChoices, failMv \in FaultChoices :
                 /\ failMk => (~Exists(folder) /\ ~failMv)
                 /\ failMv => ensure_directory_exists(folder, failMk)
                                /\ ~Exists(target_path)
                 /\ faults' = IF failMk \/ failMv THEN faults + 1 ELSE faults
                 /\ IF ~ensure_directory_exists(folder, failMk)
                      THEN /\ error_count' = error_count + 1
                           /\ log' = log \cup
                                {[src |-> file_path, kind |-> "error", dst |-> <<>>]}
                           /\ UNCHANGED <<dirs, files, moved_count, skipped_count>>
                      ELSE LET dirsNow == DirsAfterEnsure(folder, failMk)
                               how == move_file_to_archive(file_path, target_path,
                                                           dirsNow, failMv)
                           IN
                           /\ dirs' = dirsNow
                           /\ log' = log \cup
                                {[src |-> file_path,
                                  kind |-> IF how = "exists" THEN "skipped" ELSE how,
                                  dst |-> target_path]}
                           /\ CASE how = "moved" ->
                                    /\ files' = [q \in (DOMAIN files \ {file_path})
                                                        \cup {target_path} |->
                                                   IF q = target_path THEN files[file_path]
                                                   ELSE files[q]]
                                    /\ moved_count' = moved_count + 1
                                    /\ UNCHANGED <<skipped_count, error_count>>
                                [] how = "exists" ->
                                    /\ UNCHANGED <<files, moved_count, skipped_count,
                                                   error_count>>
                                [] OTHER ->
                                    /\ error_count' = error_count + 1
                                    /\ UNCHANGED <<files, moved_count, skipped_count>>
    /\ UNCHANGED <<config, pending, cwd, sweep, removed_dirs, aresult, runs, files0,
                   dirs0, prev, cvars, kvars, ovars>>

\* lines 149-189: one file of the directory being visited
AR_File ==
    /\ apc = "files"
    /\ \E file_name \in listing :
       LET file_path == cwd \o <<file_name>>
           date_str == get_file_date_str(file_path)
           folder == target_folder(cwd, date_str)
           target_path == folder \o <<file_name>>
       IN
       /\ listing' = listing \ {file_name}
       /\ apc' = IF listing = {file_name} THEN "walk" ELSE "files"
       /\ IF should_skip_file(file_name, config.skip_hidden_files, SkipExtList)
              \/ date_str = <<>>
            THEN /\ skipped_count' = skipped_count + 1
                 /\ log' = log \cup {[src |-> file_path, kind |-> "skipped", dst |-> <<>>]}
                 /\ UNCHANGED <<dirs, files, moved_count, error_count, faults>>
            ELSE \E failMk \in FaultChoices, failMv \in FaultChoices :
                 /\ failMk => (~Exists(folder) /\ ~failMv)
                 /\ failMv => ensure_directory_exists(folder, failMk)
                                /\ ~Exists(target_path)
                 /\ faults' = IF failMk \/ failMv THEN faults + 1 ELSE faults
                 /\ IF ~ensure_directory_exists(folder, failMk)
                      THEN /\ error_count' = error_count + 1
                           /\ log' = log \cup
                                {[src |-> file_path, kind |-> "error", dst |-> <<>>]}
                           /\ UNCHANGED <<dirs, files, moved_count, skipped_count>>
                      ELSE LET dirsNow == DirsAfterEnsure(folder, failMk)
                               how == move_file_to_archive(file_path, target_path,
                                                           dirsNow, failMv)
                           IN
                           /\ dirs' = dirsNow
                           /\ log' = log \cup
                                {[src |-> file_path,
                                  kind |-> IF how = "exists" THEN "skipped" ELSE how,
                                  dst |-> target_path]}
                           /\ CASE how = "moved" ->
                                    /\ files' = [q \in (DOMAIN files \ {file_path})
                                                        \cup {target_path} |->
                                                   IF q = target_path THEN files[file_path]
                                                   ELSE files[q]]
                                    /\ moved_count' = moved_count + 1
                                    /\ UNCHANGED <<skipped_count, error_count>>
                                [] how = "exists" ->
                                    /\ skipped_count' = skipped_count + 1
                                    /\ UNCHANGED <<files, moved_count, error_count>>
                                [] OTHER ->
                                    /\ error_count' = error_count + 1
                                    /\ UNCHANGED <<files, moved_count, skipped_count>>
    /\ UNCHANGED <<config, pending, cwd, sweep, removed_dirs, aresult, runs, files0,
                   dirs0, prev, cvars, kvars, ovars>>

\* lines 191-196 and 62-66: the walk is over; the cleanup walks every
\* directory below the output directory, bottom up
AR_WalkDone ==
    /\ apc = "walk"
    /\ pending = {}
    /\ apc' = "cleanup"
    /\ sweep' = dirs
    /\ UNCHANGED <<dirs, files, config, pending, cwd, listing, moved_count,
                   skipped_count, error_count, removed_dirs, aresult, runs, faults,
                   log, files0, dirs0, prev, cvars, kvars, ovars>>

\* the cleanup keeping its hands off the output directory only
cleanup_skips_RootOnly(dirpath) == AbsPath(dirpath) = AbsPath(<<>>)

\* lines 69-71: the archive folder (by the string test) and the output
\* directory itself are passed over
cleanup_skips(dirpath) == InArchive(dirpath) \/ AbsPath(dirpath) = AbsPath(<<>>)

\* the cleanup visiting the directories in any order, parents before
\* children included
AR_Sweep_AnyOrder ==
    /\ apc = "cleanup"
    /\ \E dirpath \in sweep :
          /\ sweep' = sweep \ {dirpath}
          /\ IF cleanup_skips(dirpath) \/ ~IsEmptyDir(dirpath)
               THEN UNCHANGED <<dirs, removed_dirs, faults>>
               ELSE \E fail \in FaultChoices :
                      /\ faults' = IF fail THEN faults + 1 ELSE faults
                      /\ dirs' = IF fail THEN dirs ELSE dirs \ {dirpath}
                      /\ removed_dirs' = IF fail THEN removed_dirs ELSE removed_dirs + 1
    /\ UNCHANGED <<files, config, apc, pending, cwd, listing, moved_count,
                   skipped_count, error_count, aresult, runs, log, files0, dirs0,
                   prev, cvars, kvars, ovars>>

\* lines 66-81: one directory of the bottom-up walk, after every directory
\* below it; os.rmdir may fail, which is caught and not counted
AR_Sweep ==
    /\ apc = "cleanup"
    /\ \E dirpath \in sweep :
          /\ \A q \in sweep : q # dirpath => dirpath \notin Prefixes(q)
          /\ sweep' = sweep \ {dirpath}
          /\ IF cleanup_skips(dirpath) \/ ~IsEmptyDir(dirpath)
               THEN UNCHANGED <<dirs, removed_dirs, faults>>
               ELSE \E fail \in FaultChoices :
                      /\ faults' = IF fail THEN faults + 1 ELSE faults
                      /\ dirs' = IF fail THEN dirs ELSE dirs \ {dirpath}
                      /\ removed_dirs' = IF fail THEN removed_dirs ELSE removed_dirs + 1
    /\ UNCHANGED <<files, config, apc, pending, cwd, listing, moved_count,
                   skipped_count, error_count, aresult, runs, log, files0, dirs0,
                   prev, cvars, kvars, ovars>>

\* lines 199-208
AR_Return ==
    /\ apc = "cleanup"
    /\ sweep = {}
    /\ apc' = "done"
    /\ aresult' = [success |-> TRUE, moved |-> moved_count, skipped |-> skipped_count,
                   errors |-> error_count, removed_dirs |-> removed_dirs]
    /\ runs' = runs + 1
    /\ UNCHANGED <<dirs, files, config, pending, cwd, listing, sweep, moved_count,
                   skipped_count, error_count, removed_dirs, faults, log, files0,
                   dirs0, prev, cvars, kvars, ovars>>

InitCompressIdle ==
    /\ is_running = FALSE /\ cancel_requested = FALSE /\ progress = ZeroProgress
    /\ hpc = [r \in Starts |-> "off"] /\ resp = [r \in Starts |-> "none"]
    /\ target = [r \in Starts |-> "present"] /\ wpc = [r \in Starts |-> "none"]
    /\ idx = [r \in Starts |-> 0] /\ npng = [r \in Starts |-> 0]
    /\ result = [r \in Starts |-> NoResult] /\ cpc = [c \in Cancels |-> "off"]
    /\ cresp = [c \in Cancels |-> "none"] /\ cancelAcked = [r \in Starts |-> FALSE]
    /\ begunAfterCancel = [r \in Starts |-> FALSE] /\ retained = <<>>
    /\ delete_original = [r \in Starts |-> FALSE] /\ pngs = {}
    /\ png_files = [r \in Starts |-> <<>>] /\ PIEXIF_AVAILABLE = TRUE
    /\ ppc = [p \in Polls |-> "off"] /\ snapshot = [p \in Polls |-> <<>>]

InitA == InitArchive /\ InitCompressIdle /\ InitCodecIdle /\ InitNamingIdle

execute_archive == AR_Start \/ AR_VisitDir \/ AR_File \/ AR_WalkDone \/ AR_Sweep \/ AR_Return

NextA == execute_archive

SpecArchive == InitA /\ [][NextA]_vars

(***************************************************************************)
(* Archive Engine: properties.                                             *)
(***************************************************************************)
Moved == {e \in log : e.kind = "moved"}

\* <archiveFolderName>/<date>/<relDir>/<name> for a file of the tree the
\* run started from
ExpectedTarget(src) ==
    <<ArchiveFolderName, <<"D", ToString(files0[src].mtime \div DayLen)>> >>
        \o Parent(src) \o <<Base(src)>>

\* C8: every file the run has moved is at
\* <archiveFolderName>/<date of its mtime>/<relDir>/<name>, with the content
\* and the mtime it had, and no longer where it was.
C8_Destination ==
    \A e \in Moved :
        /\ files0[e.src].mtime # Unreadable
        /\ e.src \notin DOMAIN files
        /\ ExpectedTarget(e.src) \in DOMAIN files
        /\ files[ExpectedTarget(e.src)] = files0[e.src]

\* a run has ended having moved a file of the output directory itself and a
\* file of a sub-directory whose mtime falls on the second day
C8_Witness ==
    /\ apc = "done"
    /\ \E a \in Moved, b \in Moved :
          /\ Parent(a.src) = <<>>
          /\ Parent(b.src) # <<>>
          /\ files0[b.src].mtime \div DayLen = 1

\* C9: no file of the starting tree is overwritten or deleted (it is where
\* it was, unchanged, or it was moved to a path that was free); and a file
\* whose target path was taken is left in place, the target untouched, and
\* is counted as skipped (the counters count the files so recorded).
C9_NoOverwrite ==
    /\ skipped_count = Cardinality({e \in log : e.kind = "skipped"})
    /\ error_count = Cardinality({e \in log : e.kind = "error"})
    /\ \A q \in DOMAIN files0 :
          \/ q \in DOMAIN files /\ files[q] = files0[q]
          \/ \E e \in Moved :
                /\ e.src = q
                /\ e.dst \notin DOMAIN files0
                /\ e.dst \in DOMAIN files
                /\ files[e.dst] = files0[q]
    /\ \A e \in log :
          (/\ ~should_skip_file(Base(e.src), config.skip_hidden_files, SkipExtList)
           /\ files0[e.src].mtime # Unreadable
           /\ ExpectedTarget(e.src) \in DOMAIN files0)
          => /\ e.kind = "skipped"
             /\ e.src \in DOMAIN files
             /\ files[e.src] = files0[e.src]
             /\ files[ExpectedTarget(e.src)] = files0[ExpectedTarget(e.src)]

\* a run has ended having found a file whose target path was taken
C9_Witness ==
    /\ apc = "done"
    /\ aresult.success
    /\ \E e \in log :
          /\ e.kind = "skipped"
          /\ e.dst # <<>>
          /\ e.dst \in DOMAIN files0
          /\ e.src \in DOMAIN files

\* C10 as stated: a run that follows a run that returned success moves no file.
C10_Idempotent ==
    (prev # <<>> /\ prev[1].success) => moved_count = 0

\* C10: a run that follows a run that returned success with no errors moves
\* no file; every file it handles is skipped, and none of them lies in the
\* archive folder.
C10_IdempotentAfterCleanRun ==
    (prev # <<>> /\ prev[1].success /\ prev[1].errors = 0)
        => /\ moved_count = 0
           /\ \A e \in log :
                 /\ e.kind = "skipped"
                 /\ ~StartsWith(e.src, archive_base_folder)

\* a second run has ended, after a first run that moved a file without
\* errors, and has skipped a file again
C10_Witness ==
    /\ apc = "done"
    /\ prev # <<>>
    /\ prev[1].success /\ prev[1].errors = 0 /\ prev[1].moved >= 1
    /\ aresult.success /\ aresult.moved = 0 /\ aresult.skipped >= 1

\* a directory that is the archive folder or lies inside it, as a path
UnderArchive(d) == d # <<>> /\ d[1] = ArchiveFolderName

\* C11: when a run that met no filesystem failure has returned, the output
\* directory exists and no directory outside the archive folder is empty.
C11_NoEmptyDirLeft ==
    (apc = "done" /\ aresult.success /\ faults = 0)
        => /\ <<>> \in dirs
           /\ \A d \in dirs : IsEmptyDir(d) => (d = <<>> \/ UnderArchive(d))

\* C12: a step of the cleanup leaves every file where it is, and removes
\* only directories that are empty, are not the output directory and are
\* neither the archive folder nor inside it.
C12_CleanupFrame ==
    [][apc = "cleanup" =>
          /\ files' = files
          /\ dirs' \subseteq dirs
          /\ \A d \in dirs \ dirs' :
                /\ d # <<>>
                /\ ~UnderArchive(d)
                /\ IsEmptyDir(d)]_vars

\* a cleanup has removed a directory and the directory it left empty, while
\* the empty archive folder is still there
C12_Witness ==
    /\ apc = "done"
    /\ aresult.success
    /\ aresult.removed_dirs >= 2
    /\ archive_base_folder \in dirs
    /\ IsEmptyDir(archive_base_folder)

\* the directories os.walk reaches: no part of the path is filtered out by
\* line 147 and no prefix of it is cut off at line 140
Walked(d) ==
    \A k \in 0..Len(d) :
        /\ ~InArchive(SubSeq(d, 1, k))
        /\ k >= 1 => ~should_skip_directory(d[k])

\* a file the run has to move: not skipped by rule, its mtime readable
Eligible(src) ==
    /\ ~should_skip_file(Base(src), config.skip_hidden_files, SkipExtList)
    /\ files0[src].mtime # Unreadable

Errors == {e \in log : e.kind = "error"}

\* C16: a file is recorded as an error exactly when it had to be moved, its
\* target path was free and it was not moved (its target folder could not be
\* created, or the move failed); such a file is where it was, unchanged, and
\* the error counter counts these files.  The run goes on: when it returns
\* with the archive folder in place it returns success, every file of every
\* directory of the walk has been handled, and the cleanup has gone through
\* every directory.
C16_FileFailureIsolated ==
    /\ error_count = Cardinality(Errors)
    /\ \A e \in log :
          e.kind = "error"
            <=> (/\ Eligible(e.src)
                 /\ ExpectedTarget(e.src) \notin DOMAIN files0
                 /\ e.src \in DOMAIN files)
    /\ \A e \in Errors : files[e.src] = files0[e.src]
    /\ (apc = "done" /\ archive_base_folder \in dirs)
          => /\ aresult.success
             /\ aresult.errors = Cardinality(Errors)
             /\ sweep = {}
             /\ \A q \in DOMAIN files0 :
                   Walked(Parent(q)) => \E e \in log : e.src = q

\* a run has returned success although one file could not be moved: another
\* file was moved and the cleanup removed a directory
C16_Witness ==
    /\ apc = "done"
    /\ aresult.success
    /\ aresult.errors >= 1
    /\ aresult.moved >= 1
    /\ aresult.removed_dirs >= 1

MAX_EXIF_SIZE == 65535
EmptyExifLen == 20
IfdEntryLen == 12
Band == 3

Absent == 0 - 1

\* len("workflow:") and len("prompt:"), lines 102 and 108
PrefixLen(key) == IF key = "workflow" THEN 9 ELSE 7

\* the payload length at which a workflow alone fills the block exactly
Edge == MAX_EXIF_SIZE - EmptyExifLen - IfdEntryLen - PrefixLen("workflow")

PayloadLens == (1..Band) \cup ((Edge - Band)..(Edge + Band))

\* len(piexif.dump(d)) for d: tag -> length of the value
ExifLen(d) ==
    EmptyExifLen
      + (IF "Make" \in DOMAIN d THEN IfdEntryLen + d["Make"] ELSE 0)
      + (IF "Model" \in DOMAIN d THEN IfdEntryLen + d["Model"] ELSE 0)

\* lines 97-111: the entries put into exif_dict["0th"]
Assembled(md) ==
    [t \in (IF md.workflow # Absent THEN {"Make"} ELSE {})
              \cup (IF md.prompt # Absent THEN {"Model"} ELSE {}) |->
        IF t = "Make" THEN PrefixLen("workflow") + md.workflow
        ELSE PrefixLen("prompt") + md.prompt]

\* lines 98, 104, 110-111
AssembledStatus(md) ==
    IF md.workflow = Absent THEN "none"
    ELSE IF md.prompt = Absent THEN "workflow_only"
    ELSE "full"

\* line 120: exif_dict["0th"].pop(tag, None)
Pop(d, tag) == [t \in DOMAIN d \ {tag} |-> d[t]]

\* the status never raised from workflow_only to full
create_exif_with_metadata_NeverFull(md) ==
    LET d0 == Assembled(md)
        d1 == Pop(d0, "Model")
    IN  IF ExifLen(d0) <= MAX_EXIF_SIZE
          THEN [exif |-> d0,
                status |-> IF md.workflow = Absent THEN "none" ELSE "workflow_only"]
        ELSE IF ExifLen(d1) <= MAX_EXIF_SIZE
          THEN [exif |-> d1, status |-> "workflow_only"]
        ELSE [exif |-> <<>>, status |-> "none"]

\* the first fallback removing the workflow entry instead of the prompt
create_exif_with_metadata_DropWorkflow(md) ==
    LET d0 == Assembled(md)
        d1 == Pop(d0, "Make")
    IN  IF ExifLen(d0) <= MAX_EXIF_SIZE
          THEN [exif |-> d0, status |-> AssembledStatus(md)]
        ELSE IF ExifLen(d1) <= MAX_EXIF_SIZE
          THEN [exif |-> d1, status |-> "workflow_only"]
        ELSE [exif |-> <<>>, status |-> "none"]

\* the block with the prompt dropped returned without the second size check
create_exif_with_metadata_NoSecondCheck(md) ==
    LET d0 == Assembled(md)
        d1 == Pop(d0, "Model")
    IN  IF ExifLen(d0) <= MAX_EXIF_SIZE
          THEN [exif |-> d0, status |-> AssembledStatus(md)]
        ELSE [exif |-> d1, status |-> "workflow_only"]

\* _create_exif_with_metadata, lines 95-130
create_exif_with_metadata(md) ==
    LET d0 == Assembled(md)
        d1 == Pop(d0, "Model")
    IN  IF ExifLen(d0) <= MAX_EXIF_SIZE
          THEN [exif |-> d0, status |-> AssembledStatus(md)]
        ELSE IF ExifLen(d1) <= MAX_EXIF_SIZE
          THEN [exif |-> d1, status |-> "workflow_only"]
        ELSE [exif |-> <<>>, status |-> "none"]

InitCodec ==
    /\ metadata \in [workflow : PayloadLens \cup {Absent},
                     prompt : PayloadLens \cup {Absent}]
    /\ kpc = "input"
    /\ exif_dict = <<>>
    /\ metadata_status = "none"

\* line 209: the call and what it returns
K_Encode ==
    /\ kpc = "input"
    /\ kpc' = "encoded"
    /\ exif_dict' = create_exif_with_metadata(metadata).exif
    /\ metadata_status' = create_exif_with_metadata(metadata).status
    /\ UNCHANGED <<metadata, cvars, avars, ovars>>

NextK == K_Encode

InitK == InitCodec /\ InitCompressIdle /\ InitArchiveIdle /\ InitNamingIdle

SpecCodec == InitK /\ [][NextK]_vars

(***************************************************************************)
(* Metadata embedding: properties.                                         *)
(***************************************************************************)
\* the length of the block with every entry of the payload in it
FullLen(md) == ExifLen(Assembled(md))

\* C13: when the block with every entry fits, the call returns that block,
\* with status full if workflow and prompt are both present, workflow_only
\* if only the workflow is, none if neither is.
C13_TierWhenFits ==
    (kpc = "encoded" /\ FullLen(metadata) <= MAX_EXIF_SIZE)
        => /\ exif_dict = Assembled(metadata)
           /\ (metadata.workflow # Absent /\ metadata.prompt # Absent)
                 => metadata_status = "full"
           /\ (metadata.workflow # Absent /\ metadata.prompt = Absent)
                 => metadata_status = "workflow_only"
           /\ (metadata.workflow = Absent /\ metadata.prompt = Absent)
                 => metadata_status = "none"

\* a payload with both entries, fitting, has been encoded as full
C13_Witness ==
    /\ kpc = "encoded"
    /\ metadata.workflow # Absent /\ metadata.prompt # Absent
    /\ FullLen(metadata) <= MAX_EXIF_SIZE
    /\ metadata_status = "full"
    /\ DOMAIN exif_dict = {"Make", "Model"}

\* C14: when the block with every entry is over the limit, the prompt entry
\* is dropped: if what is left fits, it is returned (the workflow entry
\* untouched when there is one) with status workflow_only; if it does not,
\* the empty block is returned with status none.  The prompt entry is never
\* returned from a payload over the limit, with or without the workflow.
C14_DegradeOrder ==
    (kpc = "encoded" /\ FullLen(metadata) > MAX_EXIF_SIZE)
        => LET rest == Pop(Assembled(metadata), "Model") IN
           /\ "Model" \notin DOMAIN exif_dict
           /\ ExifLen(rest) <= MAX_EXIF_SIZE
                 => exif_dict = rest /\ metadata_status = "workflow_only"
           /\ ExifLen(rest) > MAX_EXIF_SIZE
                 => exif_dict = <<>> /\ metadata_status = "none"

\* the first fallback has been taken at the limit: with the prompt dropped
\* the workflow entry fills the block exactly
C14_Witness ==
    /\ kpc = "encoded"
    /\ metadata.workflow # Absent /\ metadata.prompt # Absent
    /\ FullLen(metadata) > MAX_EXIF_SIZE
    /\ DOMAIN exif_dict = {"Make"}
    /\ ExifLen(exif_dict) = MAX_EXIF_SIZE
    /\ metadata_status = "workflow_only"

(***************************************************************************)
(* Archive Engine: the skip rules.                                         *)
(***************************************************************************)
\* the rule as stated, on the text of skip_extensions: the name is hidden
\* and hidden files are skipped, or the lowercased name ends with a trimmed,
\* lowercased, non-empty piece of the text
SkipRule(name, skipHidden, raw) ==
    \/ skipHidden /\ name # <<>> /\ name[1] = "."
    \/ \E i \in 1..Len(Split(raw)) :
          /\ Strip(Split(raw)[i]) # <<>>
          /\ EndsWith(Lower(name), Lower(Strip(Split(raw)[i])))

\* C22: _should_skip_file answers as the rule says for every file of the
\* tree; a file the rule holds for, once handled, is recorded as skipped
\* with no target and is where it was, unchanged; and when the run returns
\* every such file of a directory of the walk has been counted.
C22_SkipFileRule ==
    /\ apc # "off" =>
          \A q \in DOMAIN files0 :
              should_skip_file(Base(q), config.skip_hidden_files, SkipExtList)
                <=> SkipRule(Base(q), config.skip_hidden_files, SkipExtensions)
    /\ skipped_count = Cardinality({e \in log : e.kind = "skipped"})
    /\ \A e \in log :
          SkipRule(Base(e.src), config.skip_hidden_files, SkipExtensions)
            => /\ e.kind = "skipped"
               /\ e.dst = <<>>
               /\ e.src \in DOMAIN files
               /\ files[e.src] = files0[e.src]
    /\ (apc = "done" /\ aresult.success)
          => \A q \in DOMAIN files0 :
                (Walked(Parent(q))
                   /\ SkipRule(Base(q), config.skip_hidden_files, SkipExtensions))
                  => \E e \in log : e.src = q

\* a run has returned having skipped a hidden file and a file whose
\* extension matches an entry spelled in another case
C22_Witness ==
    /\ apc = "done"
    /\ aresult.success
    /\ aresult.skipped >= 2
    /\ \E a \in log, b \in log :
          /\ Base(a.src) = FileHidden /\ a.kind = "skipped"
          /\ Base(b.src) = FileExt /\ b.kind = "skipped"

\* a directory name that is reserved: database, or a leading underscore
ReservedName(n) ==
    \/ n = <<"d", "a", "t", "a", "b", "a", "s", "e">>
    \/ n # <<>> /\ n[1] = "_"

\* no part of the path is a reserved directory
NotReserved(d) == \A k \in 1..Len(d) : ~ReservedName(d[k])

\* C26: when a run that met no filesystem failure has returned, every file
\* of the starting tree that was not in the archive folder nor below a
\* reserved directory, was not to be skipped, had a readable mtime and a
\* free target path, is at its target path and no longer where it was.
C26_WalkReachesAll ==
    (apc = "done" /\ aresult.success /\ faults = 0)
        => \A q \in DOMAIN files0 :
              (/\ ~UnderArchive(Parent(q))
               /\ NotReserved(Parent(q))
               /\ Eligible(q)
               /\ ExpectedTarget(q) \notin DOMAIN files0)
                => /\ q \notin DOMAIN files
                   /\ ExpectedTarget(q) \in DOMAIN files

\* C27: a file below a directory named database or a directory whose name
\* starts with an underscore, at any depth, is where it was, unchanged, and
\* the run has no record of it; the three counters count the records.
C27_ReservedPruned ==
    /\ moved_count = Cardinality(Moved)
    /\ skipped_count = Cardinality({e \in log : e.kind = "skipped"})
    /\ error_count = Cardinality(Errors)
    /\ \A q \in DOMAIN files0 :
          ~NotReserved(Parent(q))
            => /\ q \in DOMAIN files
               /\ files[q] = files0[q]
               /\ \A e \in log : e.src # q

\* a run has returned having moved a file, with a file two levels below an
\* underscore directory of a sub-directory left alone
C27_Witness ==
    /\ apc = "done"
    /\ aresult.success
    /\ aresult.moved = 1 /\ aresult.skipped = 0 /\ aresult.errors = 0
    /\ <<NameS, NamePriv, NameT, FileF>> \in DOMAIN files

\* the step that handles a file whose mtime cannot be read makes no
\* directory, moves nothing, and adds one to the skipped count alone
UnreadableStep ==
    \A e \in log' \ log :
        files0[e.src].mtime = Unreadable
          => /\ e.kind = "skipped"
             /\ dirs' = dirs
             /\ files' = files
             /\ skipped_count' = skipped_count + 1
             /\ error_count' = error_count
             /\ moved_count' = moved_count

\* such a file stays recorded as skipped and in place, and the run that
\* returns has handled every file of every directory of the walk
UnreadableKept ==
    /\ \A e \in log :
          files0[e.src].mtime = Unreadable
            => /\ e.kind = "skipped"
               /\ e.src \in DOMAIN files
               /\ files[e.src] = files0[e.src]
    /\ (apc = "done" /\ archive_base_folder \in dirs)
          => /\ aresult.success
             /\ \A q \in DOMAIN files0 :
                   Walked(Parent(q)) => \E e \in log : e.src = q

\* C28: a file whose mtime cannot be read is never moved: it is counted as
\* skipped and not as an error, no directory is made for it, it stays where
\* it was, and the walk goes on to the other files.
C28_UnreadableSkipped == [][UnreadableStep]_vars /\ []UnreadableKept

\* a run has returned having skipped a file with an unreadable mtime that the
\* rules did not skip, and having moved another file
C28_Witness ==
    /\ apc = "done"
    /\ aresult.success
    /\ aresult.moved >= 1
    /\ \E e \in log :
          /\ files0[e.src].mtime = Unreadable
          /\ ~SkipRule(Base(e.src), config.skip_hidden_files, SkipExtensions)
          /\ e.kind = "skipped"

(***************************************************************************)
(* Archive Engine: the outcome of a run as a function of the tree it       *)
(* started from and of the request, with no order of visit in it.          *)
(***************************************************************************)
\* the files of the directories the walk reaches, and those of them that
\* are moved: not skipped, mtime readable, target path free
Handled0 == {q \in DOMAIN files0 : Walked(Parent(q))}
Moved0 ==
    {q \in Handled0 : Eligible(q) /\ ExpectedTarget(q) \notin DOMAIN files0}

FinalFiles ==
    [p \in (DOMAIN files0 \ Moved0) \cup {ExpectedTarget(q) : q \in Moved0} |->
        IF p \in DOMAIN files0 \ Moved0 THEN files0[p]
        ELSE files0[CHOOSE q \in Moved0 : ExpectedTarget(q) = p]]

\* the directories before the cleanup, those the cleanup removes (outside
\* what it passes over, with no file left below), and the rest
GrownDirs ==
    dirs0 \cup {archive_base_folder}
          \cup UNION {Prefixes(Parent(ExpectedTarget(q))) : q \in Moved0}
Removed0 ==
    {d \in GrownDirs :
        /\ ~cleanup_skips(d)
        /\ \A p \in DOMAIN FinalFiles : ~(Len(p) > Len(d) /\ SubSeq(p, 1, Len(d)) = d)}
FinalDirs == GrownDirs \ Removed0

\* C24: a run that met no filesystem failure ends, whatever the order in
\* which directories and files were visited, with the same tree and the
\* same four counts: those the starting tree and the request determine.
C24_OrderIndependent ==
    (apc = "done" /\ aresult.success /\ faults = 0)
        => /\ files = FinalFiles
           /\ dirs = FinalDirs
           /\ aresult.moved = Cardinality(Moved0)
           /\ aresult.skipped = Cardinality(Handled0 \ Moved0)
           /\ aresult.errors = 0
           /\ aresult.removed_dirs = Cardinality(Removed0)

\* a run has returned having moved two files of two directories, one below
\* the other, and removed both directories
C24_Witness ==
    /\ apc = "done"
    /\ aresult.success
    /\ faults = 0
    /\ aresult.moved = 2
    /\ aresult.removed_dirs = 2
    /\ \E a \in Moved, b \in Moved : Len(a.src) = 2 /\ Len(b.src) = 3

(***************************************************************************)
(* Metadata embedding: the status against the block, and the limit.        *)
(***************************************************************************)
\* C29: the status returned with a block says what the block carries: full
\* exactly when it has the workflow and the prompt entry, workflow_only
\* exactly when it has the workflow entry alone, none exactly when it has
\* neither.
C29_TierMatchesSidecar ==
    kpc = "encoded"
        => /\ metadata_status = "full" <=> DOMAIN exif_dict = {"Make", "Model"}
           /\ metadata_status = "workflow_only" <=> DOMAIN exif_dict = {"Make"}
           /\ metadata_status = "none" <=> DOMAIN exif_dict = {}

\* C30: the block returned is never longer than MAX_EXIF_SIZE.
C30_WithinCapacity ==
    kpc = "encoded" => ExifLen(exif_dict) <= MAX_EXIF_SIZE

\* a workflow too long by itself has been encoded, with or without a prompt,
\* and the empty block came back
C30_Witness ==
    /\ kpc = "encoded"
    /\ metadata.workflow # Absent
    /\ ExifLen(Pop(Assembled(metadata), "Model")) > MAX_EXIF_SIZE
    /\ exif_dict = <<>>
    /\ ExifLen(exif_dict) = EmptyExifLen

(***************************************************************************)
(* Compression Engine: batches without piexif, and the denominator.        *)
(***************************************************************************)
\* C21: without piexif every result of compress_image has status none, and
\* when a batch leaves its loop every file counted as compressed is counted
\* under metadata_none: metadata_none = compressed, metadata_full =
\* metadata_partial = 0.
C21_NoExifTierNone ==
    ~PIEXIF_AVAILABLE =>
        \A r \in Starts :
            /\ result[r].metadata_status = "none"
            /\ wpc[r] = "L406" =>
                  /\ progress.metadata_none = progress.compressed
                  /\ progress.metadata_full = 0
                  /\ progress.metadata_partial = 0

\* C23: once a candidate has been begun, progress.total is the number of
\* candidates enumerated: that of every batch in its loop, and that of some
\* batch that has enumerated.
C23_TotalFixed ==
    progress.current >= 1 =>
        /\ \A r \in Starts :
              wpc[r] \in LoopPCs \ {"L345"} => progress.total = Len(png_files[r])
        /\ \E r \in Starts :
              /\ wpc[r] \in (LoopPCs \ {"L345"}) \cup {"L406", "L407", "done"}
              /\ progress.total = Len(png_files[r])

C31_CancelImpliesRunning == cancel_requested => is_running

(***************************************************************************)
(* Archive Engine: the three counts against the files of the walk.         *)
(***************************************************************************)
\* a directory the walk goes through: no part of its path is a reserved
\* name, and neither it nor a directory above it has a path that begins
\* with the text of the archive folder's path
Traversed(d) ==
    /\ NotReserved(d)
    /\ \A k \in 0..Len(d) :
          ~StartsWith(AbsPath(SubSeq(d, 1, k)), AbsPath(<<ArchiveFolderName>>))

\* C32: when a run has returned success, moved + skipped + errors is the
\* number of files that were in the directories of the walk when the run
\* started, and moved is the number of files that are no longer where they
\* were, which is the number of files at a path that held none.
C32_CountsPartition ==
    (apc = "done" /\ aresult.success)
        => /\ aresult.moved + aresult.skipped + aresult.errors
                = Cardinality({q \in DOMAIN files0 : Traversed(Parent(q))})
           /\ aresult.moved = Cardinality(DOMAIN files0 \ DOMAIN files)
           /\ aresult.moved = Cardinality(DOMAIN files \ DOMAIN files0)

\* a run has returned having moved one file and failed on another
C32_Witness ==
    /\ apc = "done"
    /\ aresult.success
    /\ aresult.moved = 1
    /\ aresult.errors = 1
    /\ aresult.skipped = 0
    /\ Cardinality(DOMAIN files0 \ DOMAIN files) = 1

(***************************************************************************)
(* Output naming: the candidates of a directory and the paths their        *)
(* compressed files are written to.                                        *)
(***************************************************************************)
MaxNames == 3       \* files in the target directory

\* the file names a directory may hold
FileNames ==
    { <<"a", ".", "p", "n", "g">>, <<"a", ".", "P", "N", "G">>,
      <<"a", ".", "b", ".", "p", "n", "g">>, <<"b", ".", "p", "n", "g">>,
      <<"a", ".", "j", "p", "g">>, <<"a", "p", "n", "g">> }

\* lines 338 and 342: file.lower().endswith('.png')
IsPng(file) == EndsWith(Lower(file), <<".", "p", "n", "g">>)

\* str.rsplit('.', 1)[0]: what stands before the last dot
RECURSIVE LastDot(_)
LastDot(str) ==
    IF str = <<>> THEN 0
    ELSE IF str[Len(str)] = "." THEN Len(str)
    ELSE LastDot(SubSeq(str, 1, Len(str) - 1))

RSplitHead(str) == IF LastDot(str) = 0 THEN str ELSE SubSeq(str, 1, LastDot(str) - 1)

\* line 192
Ext(fmt) == IF fmt = "JPEG" THEN <<".", "j", "p", "g">> ELSE <<".", "w", "e", "b", "p">>

\* line 193
compressed_path(png_path, fmt) == RSplitHead(png_path) \o Ext(fmt)

InitNaming ==
    /\ dir_names \in {S \in SUBSET FileNames : Cardinality(S) <= MaxNames}
    /\ output_format \in {"JPEG", "WEBP"}
    /\ opc = "start"
    /\ todo = {}
    /\ outputs = <<>>
    /\ compressed_count = 0

\* lines 331-345: the candidates of the directory
N_Enumerate ==
    /\ opc = "start"
    /\ todo' = {f \in dir_names : IsPng(f)}
    /\ opc' = "loop"
    /\ UNCHANGED <<dir_names, output_format, outputs, compressed_count, cvars, avars,
                   kvars>>

\* lines 349-377 with 191-205: the next candidate, in the order the
\* filesystem listed it; compress_image fails before the save, or saves to
\* compressed_path, whatever is there, and the loop counts it
N_Compress ==
    /\ opc = "loop"
    /\ \E png_path \in todo :
          /\ todo' = todo \ {png_path}
          /\ \E ok \in BOOLEAN :
                IF ok
                  THEN LET dst == compressed_path(png_path, output_format) IN
                       /\ outputs' = [q \in DOMAIN outputs \cup {dst} |->
                                         IF q = dst THEN png_path ELSE outputs[q]]
                       /\ compressed_count' = compressed_count + 1
                  ELSE UNCHANGED <<outputs, compressed_count>>
    /\ UNCHANGED <<dir_names, output_format, opc, cvars, avars, kvars>>

\* the loop has run out of candidates
N_Finish ==
    /\ opc = "loop"
    /\ todo = {}
    /\ opc' = "done"
    /\ UNCHANGED <<dir_names, output_format, todo, outputs, compressed_count, cvars,
                   avars, kvars>>

NextNaming == N_Enumerate \/ N_Compress \/ N_Finish

InitO == InitNaming /\ InitCompressIdle /\ InitArchiveIdle /\ InitCodecIdle

SpecNaming == InitO /\ [][NextNaming]_vars

\* C33: no two candidates of a batch have the same compressed path, and
\* when the batch is over there are as many files written as files counted
\* as compressed.
C33_DistinctDestinations ==
    /\ opc \in {"loop", "done"} =>
          \A a, b \in {f \in dir_names : IsPng(f)} :
              a # b => compressed_path(a, output_format)
                          # compressed_path(b, output_format)
    /\ opc = "done" => Cardinality(DOMAIN outputs) = compressed_count

====
